---- MODULE Spec2Model ----
(***************************************************************************)
(* A model of `please`: the history-to-script compiler                     *)
(* (src/src/history_parser.rs) and the build session that drives it        *)
(* (src/src/script.rs).                                                    *)
(*                                                                         *)
(* A Rust String is a sequence of one-character strings, so that trim,     *)
(* split, contains, starts_with and format! are computed character by      *)
(* character as the code computes them.                                    *)
(***************************************************************************)
EXTENDS Integers, Sequences, FiniteSets, TLC

VARIABLES histfile, buildFile, scripts, ret, parsed, active

vars == <<histfile, buildFile, scripts, ret, parsed, active>>

(***************************************************************************)
(* Bounds of the model.                                                    *)
(***************************************************************************)
\* the most lines of a history file the parser is run on
MaxLines == 3
\* the most Variables of a session the parser is run on
MaxVars == 2
\* the most lines the shell writes to the history file during a session
MaxHist == 1
\* the most Variables recorded with `please ask` during a session
MaxRecorded == 2

\* the longest history of the wide-alphabet parser specification, in lines
MaxWide == 2

(***************************************************************************)
(* Strings.                                                                *)
(***************************************************************************)
\* char::is_whitespace, on the characters the model uses
IsWhite(c) == c \in {" ", "\t", "\n", "\r"}

StartsWith(s, p) == Len(p) <= Len(s) /\ SubSeq(s, 1, Len(p)) = p

EndsWith(s, p) == Len(p) <= Len(s) /\ SubSeq(s, Len(s) - Len(p) + 1, Len(s)) = p

\* str::contains with a string pattern
Contains(s, p) == \E i \in 1..(Len(s) - Len(p) + 1) : SubSeq(s, i, i + Len(p) - 1) = p

RECURSIVE TrimStart(_)
TrimStart(s) == IF s # <<>> /\ IsWhite(Head(s)) THEN TrimStart(Tail(s)) ELSE s

RECURSIVE TrimEnd(_)
TrimEnd(s) ==
    IF s # <<>> /\ IsWhite(s[Len(s)]) THEN TrimEnd(SubSeq(s, 1, Len(s) - 1)) ELSE s

\* str::trim
Trim(s) == TrimEnd(TrimStart(s))

\* str::trim_start_matches with a string pattern: every leading repetition goes
RECURSIVE TrimStartMatches(_, _)
TrimStartMatches(s, p) ==
    IF p # <<>> /\ StartsWith(s, p)
    THEN TrimStartMatches(SubSeq(s, Len(p) + 1, Len(s)), p)
    ELSE s

\* str::trim_matches with a char pattern: every leading and trailing c goes
RECURSIVE TrimMatches(_, _)
TrimMatches(s, c) ==
    IF s # <<>> /\ Head(s) = c THEN TrimMatches(Tail(s), c)
    ELSE IF s # <<>> /\ s[Len(s)] = c THEN TrimMatches(SubSeq(s, 1, Len(s) - 1), c)
    ELSE s

\* str::split with a char pattern: the pieces between the separators, in order
\* (n separators give n + 1 pieces, empty ones included)
RECURSIVE Split(_, _)
Split(s, c) ==
    IF \A i \in 1..Len(s) : s[i] # c
    THEN <<s>>
    ELSE LET i == CHOOSE k \in 1..Len(s) : s[k] = c /\ \A j \in 1..(k - 1) : s[j] # c
         IN  <<SubSeq(s, 1, i - 1)>> \o Split(SubSeq(s, i + 1, Len(s)), c)

\* Iterator<Item = &str>::collect::<String>(): the pieces concatenated
RECURSIVE Concat(_)
Concat(pieces) == IF pieces = <<>> THEN <<>> ELSE Head(pieces) \o Concat(Tail(pieces))

\* [&str]::join(sep)
RECURSIVE Join(_, _)
Join(pieces, sep) ==
    IF pieces = <<>> THEN <<>>
    ELSE IF Len(pieces) = 1 THEN pieces[1]
    ELSE pieces[1] \o sep \o Join(Tail(pieces), sep)

\* Iterator::rev on a finite sequence
Reverse(s) == [i \in 1..Len(s) |-> s[Len(s) + 1 - i]]

\* str::lines: the text is cut after every "\n"; a piece loses its final "\n"
\* and then a final "\r"; text after the last "\n" is a line of its own
RECURSIVE Lines(_)
Lines(s) ==
    IF s = <<>> THEN <<>>
    ELSE IF \A i \in 1..Len(s) : s[i] # "\n" THEN <<s>>
    ELSE LET i == CHOOSE k \in 1..Len(s) : s[k] = "\n" /\ \A j \in 1..(k - 1) : s[j] # "\n"
             l == SubSeq(s, 1, i - 1)
         IN  <<IF EndsWith(l, <<"\r">>) THEN SubSeq(l, 1, Len(l) - 1) ELSE l>>
             \o Lines(SubSeq(s, i + 1, Len(s)))

(***************************************************************************)
(* history_parser.rs                                                       *)
(***************************************************************************)
Please == <<"p", "l", "e", "a", "s", "e">>
Cargo == <<"c", "a", "r", "g", "o", " ", "r", "u", "n", " ", "-", "-">>
Sp == <<" ">>
Help == <<"-", "-", "h", "e", "l", "p">>
DashH == <<"-", "h">>
Ask == <<"a", "s", "k">>

\* "#!/bin/sh\n"
SHEBANG == <<"#", "!", "/", "b", "i", "n", "/", "s", "h", "\n">>

\* "set -e\n"
SET_E == <<"s", "e", "t", " ", "-", "e", "\n">>

\* "please build"
BUILD_CMD == Please \o Sp \o <<"b", "u", "i", "l", "d">>

\* IGNORED_COMMANDS without its "please list" entry
IGNORED_COMMANDS_NoList ==
    { Please \o Sp \o <<"c", "u", "r", "r", "e", "n", "t">>,
      BUILD_CMD,
      BUILD_CMD \o Sp \o Help,
      BUILD_CMD \o Sp \o DashH,
      Cargo \o Sp \o <<"l", "i", "s", "t">>,
      Cargo \o Sp \o <<"c", "u", "r", "r", "e", "n", "t">>,
      Please \o Sp \o Ask \o Sp \o Help,
      Please \o Sp \o Ask \o Sp \o DashH }

IGNORED_COMMANDS ==
    { Please \o Sp \o <<"c", "u", "r", "r", "e", "n", "t">>,
      Please \o Sp \o <<"l", "i", "s", "t">>,
      BUILD_CMD,
      BUILD_CMD \o Sp \o Help,
      BUILD_CMD \o Sp \o DashH,
      Cargo \o Sp \o <<"l", "i", "s", "t">>,
      Cargo \o Sp \o <<"c", "u", "r", "r", "e", "n", "t">>,
      Please \o Sp \o Ask \o Sp \o Help,
      Please \o Sp \o Ask \o Sp \o DashH }

\* is_please_ask: the line holds an ask invocation and is not, as a whole,
\* one of the ignored commands
is_please_ask(line) ==
    LET is_ask == Contains(line, Please \o Sp \o Ask) \/ Contains(line, Cargo \o Sp \o Ask)
    IN  is_ask /\ line \notin IGNORED_COMMANDS

\* is_start_of_build with its result reversed for lines starting with the build
\* command: the finalizing `please build`, alone or with a help flag, is the
\* start
is_start_of_build_finalize(line) ==
    IF ~StartsWith(line, BUILD_CMD) THEN FALSE
    ELSE LET remainder == Trim(TrimStartMatches(Trim(line), BUILD_CMD))
         IN  IF remainder \in {Help, DashH} THEN TRUE ELSE remainder = <<>>

\* is_start_of_build that looks at the prefix only
is_start_of_build_prefix(line) == StartsWith(line, BUILD_CMD)

\* is_start_of_build: `please build <something other than a help flag>`
is_start_of_build(line) ==
    IF ~StartsWith(line, BUILD_CMD) THEN FALSE
    ELSE LET remainder == Trim(TrimStartMatches(Trim(line), BUILD_CMD))
         IN  IF remainder \in {Help, DashH} THEN FALSE ELSE remainder # <<>>

\* the closure of the map at line 42:
\* line.trim().split(";").skip(1).collect::<String>()
StripMeta(line) == Concat(Tail(Split(Trim(line), ";")))

\* Iterator::take_while
RECURSIVE TakeWhileNotStart(_)
TakeWhileNotStart(cmds) ==
    IF cmds = <<>> \/ is_start_of_build(Head(cmds)) THEN <<>>
    ELSE <<Head(cmds)>> \o TakeWhileNotStart(Tail(cmds))

\* the scan without .rev(): the commands oldest first
ScannedForward(history) ==
    LET ls == Lines(history)
    IN  TakeWhileNotStart([i \in 1..Len(ls) |-> StripMeta(ls[i])])

\* the commands of every history line, newest first, with no take_while
ScannedWhole(history) ==
    LET ls == Lines(history)
    IN  [i \in 1..Len(ls) |-> StripMeta(Reverse(ls)[i])]

\* the commands the for loop sees, newest first
Scanned(history) ==
    LET ls == Lines(history)
    IN  TakeWhileNotStart([i \in 1..Len(ls) |-> StripMeta(Reverse(ls)[i])])

\* the first match arm's guard: IGNORED_COMMANDS.iter().any(|w| cmd.contains(w))
IsIgnored(cmd) == \E w \in IGNORED_COMMANDS : Contains(cmd, w)

\* Iterator::skip_while(|s| !s.starts_with("ask"))
RECURSIVE SkipUntilAsk(_)
SkipUntilAsk(words) ==
    IF words = <<>> \/ StartsWith(Head(words), Ask) THEN words
    ELSE SkipUntilAsk(Tail(words))

\* Iterator::skip(1)
Skip1(s) == IF s = <<>> THEN <<>> ELSE Tail(s)

\* the prompt of an ask command: the words after the one starting with "ask",
\* joined by single spaces, without the double quotes around them
Prompt(cmd) == TrimMatches(Join(Skip1(SkipUntilAsk(Split(cmd, " "))), Sp), "\"")

\* format!("read -p \"{} \" {}", prompt, var.value)
ReadStatement(prompt, value) ==
    <<"r", "e", "a", "d", " ", "-", "p", " ", "\"">> \o prompt \o <<" ", "\"", " ">> \o value

\* var_iter.next() followed by unwrap_or_default(): an empty Variable when none
\* is left
var_iter_or_default(variables, used) ==
    IF used < Len(variables)
    THEN [some |-> TRUE, var |-> variables[Len(variables) - used]]
    ELSE [some |-> TRUE, var |-> [value |-> <<>>, expr |-> <<>>]]

\* var_iter.next() of an iterator that was not reversed: oldest Variable first
var_iter_forward(variables, used) ==
    IF used < Len(variables)
    THEN [some |-> TRUE, var |-> variables[used + 1]]
    ELSE [some |-> FALSE]

\* var_iter.next(), var_iter being variables.iter().rev() with `used` items
\* already taken: Some(the next Variable, newest first) or None
var_iter_next(variables, used) ==
    IF used < Len(variables)
    THEN [some |-> TRUE, var |-> variables[Len(variables) - used]]
    ELSE [some |-> FALSE]

\* an ask command pushing its read statement only
AskLinesReadOnly(cmd, var) == <<ReadStatement(Prompt(cmd), var.value)>>

\* the two lines of an ask command pushed read statement first
AskLinesReadFirst(cmd, var) == <<ReadStatement(Prompt(cmd), var.value), var.expr>>

\* the two lines an ask command pushes, in the order it pushes them
AskLines(cmd, var) == <<var.expr, ReadStatement(Prompt(cmd), var.value)>>

\* the body of the for loop over the scanned commands: res is the Vec built so
\* far, used the number of Variables var_iter has handed out
RECURSIVE ParseLoop(_, _, _, _)
ParseLoop(cmds, variables, res, used) ==
    IF cmds = <<>> THEN [status |-> "ok", lines |-> res]
    ELSE LET cmd == Head(cmds)
         IN  IF EndsWith(cmd, <<"\n">>) THEN [status |-> "panic", lines |-> <<>>]
             ELSE IF IsIgnored(cmd) THEN ParseLoop(Tail(cmds), variables, res, used)
             ELSE IF is_please_ask(cmd)
                  THEN LET next == var_iter_next(variables, used)
                       IN  IF ~next.some
                           THEN [status |-> "panic", lines |-> <<>>]
                           ELSE ParseLoop(Tail(cmds), variables,
                                          res \o AskLines(cmd, next.var), used + 1)
             ELSE ParseLoop(Tail(cmds), variables, Append(res, cmd), used)

\* parse_history pushing the shebang before `set -e`
parse_history_shebang_first(history, variables) ==
    LET r == ParseLoop(Scanned(history), variables, <<>>, 0)
    IN  IF r.status # "ok" THEN r
        ELSE [status |-> "ok", lines |-> Reverse(r.lines \o <<SHEBANG, SET_E>>)]

\* Parser<Zsh>::parse_history: Ok(lines), or a panic when an ask command finds
\* no Variable left
parse_history(history, variables) ==
    LET r == ParseLoop(Scanned(history), variables, <<>>, 0)
    IN  IF r.status # "ok" THEN r
        ELSE [status |-> "ok", lines |-> Reverse(r.lines \o <<SET_E, SHEBANG>>)]

(***************************************************************************)
(* The files the program reads and writes, and its inputs.                 *)
(***************************************************************************)
\* a path at which no file exists
NoFile == [exists |-> FALSE]

\* the history file: the lines the shell wrote, each ended by a newline
HistFile(content) == [exists |-> TRUE, content |-> content]

\* build.json: the persisted BuildFile
SessionFile(name, variables) ==
    [exists |-> TRUE, script_name |-> name, variables |-> variables]

\* a file of the scripts directory
ScriptFile(content, mode) == [exists |-> TRUE, content |-> content, mode |-> mode]

\* the metadata every history line of the model starts with: ": 1:0;"
Meta == <<":", " ", "1", ":", "0", ";">>

NameA == <<"a">>
NameB == <<"b">>
DotSh == <<".", "s", "h">>

\* the script names a user passes to `please build <name>`
ScriptNames == {NameA, NameB, NameA \o DotSh}

\* the names a script file can get: <script_name>.sh for a name build_new accepts
ScriptKeys == {n \in ScriptNames : ~EndsWith(n, DotSh)}

Var1 == [value |-> <<"V", "1">>, expr |-> <<"e", "c", "h", "o", " ", "$", "V", "1">>]
\* a Variable whose expression holds double quotes: echo "$V2"
Var2 ==
    [value |-> <<"V", "2">>, expr |-> <<"e", "c", "h", "o", " ", "\"", "$", "V", "2", "\"">>]
\* a Variable whose expression is itself an administrative command
VarList == [value |-> <<"V", "3">>, expr |-> Please \o Sp \o <<"l", "i", "s", "t">>]

\* the Variables a user records with `please ask`
VarPool == {Var1, Var2}

LineLs == Meta \o <<"l", "s">>
LineAskName == Meta \o Please \o Sp \o Ask \o Sp \o <<"\"", "n", "?", "\"">>
LineAskAge == Meta \o Please \o Sp \o Ask \o Sp \o <<"\"", "a", "?", "\"">>
LineBuild == Meta \o BUILD_CMD
LineBuildHelp == Meta \o BUILD_CMD \o Sp \o DashH
LineBuildName == Meta \o BUILD_CMD \o Sp \o NameA
LineList == Meta \o Please \o Sp \o <<"l", "i", "s", "t">>
\* ": 1:0; cd;ls": a blank after the first semicolon, and a second semicolon
LineTwoCmds == Meta \o <<" ", "c", "d", ";", "l", "s">>

LineBuildH == Meta \o BUILD_CMD \o Sp \o Help
\* an ask line whose prompt is the text of an ignored command
LineAskList == Meta \o Please \o Sp \o Ask \o Sp \o <<"\"">> \o Please \o Sp \o <<"l", "i", "s", "t", "\"">>
LineAskHelp == Meta \o Please \o Sp \o Ask \o Sp \o Help
\* a history line with no metadata and no semicolon
LineNoMeta == <<"l", "s">>

\* the lines the shell writes to the history file during a session
ShellLines == {LineLs, LineAskName, LineBuildName}

\* the process umask under which a script file is created: 0o022
Umasks == {18}

\* bitwise and of two naturals
RECURSIVE BitAnd(_, _)
BitAnd(a, b) ==
    IF a = 0 \/ b = 0 THEN 0
    ELSE 2 * BitAnd(a \div 2, b \div 2) + (IF a % 2 = 1 /\ b % 2 = 1 THEN 1 ELSE 0)

\* OpenOptions' default mode for a file that File::create creates: 0o666
CreateMode == 438

\* the mode of perms.set_mode(0o755)
ExecMode == 493

\* some execute bit (0o111) is set in mode
HasExec(mode) == BitAnd(mode, 73) # 0

NoParse == [status |-> "none", lines |-> <<>>]

\* the outcome of an invocation: the sub-command, how it ended, and the script
\* name it was given or found in the session file (empty when it found none)
Ret(op, status, name) == [op |-> op, status |-> status, name |-> name]

\* the script name of a loaded session
NameOf(b) == IF b.status = "ok" THEN b.build_file.script_name ELSE <<>>

(***************************************************************************)
(* serde_json, as BuildFile uses it: to_writer_pretty writes the session   *)
(* as JSON text (two-space indent, strings escaped), from_reader reads a   *)
(* BuildFile back from such text.                                          *)
(***************************************************************************)
\* one character of a string, as the JSON writer escapes it
EscapeChar(c) ==
    IF c = "\"" THEN <<"\\", "\"">>
    ELSE IF c = "\\" THEN <<"\\", "\\">>
    ELSE IF c = "\n" THEN <<"\\", "n">>
    ELSE IF c = "\t" THEN <<"\\", "t">>
    ELSE IF c = "\r" THEN <<"\\", "r">>
    ELSE <<c>>

\* the character an escape sequence `\c` stands for
UnescapeChar(c) ==
    IF c = "n" THEN "\n"
    ELSE IF c = "t" THEN "\t"
    ELSE IF c = "r" THEN "\r"
    ELSE c

\* a string as a JSON string: quoted, its characters escaped
JsonString(s) == <<"\"">> \o Concat([i \in 1..Len(s) |-> EscapeChar(s[i])]) \o <<"\"">>

KeyScriptName == <<"s", "c", "r", "i", "p", "t", "_", "n", "a", "m", "e">>
KeyVariables == <<"v", "a", "r", "i", "a", "b", "l", "e", "s">>
KeyValue == <<"v", "a", "l", "u", "e">>
KeyExpr == <<"e", "x", "p", "r">>

\* one Variable as a pretty-printed JSON object inside the variables array
JsonVariable(var) ==
    <<" ", " ", " ", " ", "{", "\n", " ", " ", " ", " ", " ", " ">> \o JsonString(KeyValue) \o <<":", " ">> \o JsonString(var.value)
    \o <<",", "\n", " ", " ", " ", " ", " ", " ">> \o JsonString(KeyExpr) \o <<":", " ">> \o JsonString(var.expr)
    \o <<"\n", " ", " ", " ", " ", "}">>

\* serde_json::to_writer_pretty writing strings without escaping them
to_writer_unescaped(build_file) ==
    <<"{", "\n", " ", " ">> \o (<<"\"">> \o KeyScriptName \o <<"\"">>) \o <<":", " ">>
    \o (<<"\"">> \o build_file.script_name \o <<"\"">>)
    \o <<",", "\n", " ", " ">> \o (<<"\"">> \o KeyVariables \o <<"\"">>) \o <<":", " ", "[">>
    \o (IF build_file.variables = <<>> THEN <<>>
        ELSE <<"\n">>
             \o Join([i \in 1..Len(build_file.variables) |->
                        <<" ", " ", " ", " ", "{", "\n", " ", " ", " ", " ", " ", " ">> \o (<<"\"">> \o KeyValue \o <<"\"">>) \o <<":", " ">>
                        \o (<<"\"">> \o build_file.variables[i].value \o <<"\"">>)
                        \o <<",", "\n", " ", " ", " ", " ", " ", " ">> \o (<<"\"">> \o KeyExpr \o <<"\"">>) \o <<":", " ">>
                        \o (<<"\"">> \o build_file.variables[i].expr \o <<"\"">>)
                        \o <<"\n", " ", " ", " ", " ", "}">>],
                     <<",", "\n">>)
             \o <<"\n", " ", " ">>)
    \o <<"]", "\n", "}">>

\* serde_json::to_writer_pretty(file, self) for a BuildFile
to_writer_pretty(build_file) ==
    <<"{", "\n", " ", " ">> \o JsonString(KeyScriptName) \o <<":", " ">>
    \o JsonString(build_file.script_name)
    \o <<",", "\n", " ", " ">> \o JsonString(KeyVariables) \o <<":", " ", "[">>
    \o (IF build_file.variables = <<>> THEN <<>>
        ELSE <<"\n">>
             \o Join([i \in 1..Len(build_file.variables) |->
                        JsonVariable(build_file.variables[i])], <<",", "\n">>)
             \o <<"\n", " ", " ">>)
    \o <<"]", "\n", "}">>

\* the characters of a JSON string's body with its escape sequences resolved
RECURSIVE Unescape(_)
Unescape(body) ==
    IF body = <<>> THEN <<>>
    ELSE IF Head(body) = "\\" /\ Len(body) >= 2
         THEN <<UnescapeChar(body[2])>> \o Unescape(SubSeq(body, 3, Len(body)))
    ELSE <<Head(body)>> \o Unescape(Tail(body))

StrToken(string) == [kind |-> "str", text |-> string]
SymToken(c) == [kind |-> "sym", text |-> <<c>>]
BadToken == [kind |-> "bad", text |-> <<>>]

\* the tokens of a JSON text: its strings and its punctuation, white space
\* between them skipped
Tokens(text) ==
    LET n == Len(text)
        \* the closing quote of the string whose body starts at i, 0 if none
        close[i \in 1..n + 1] ==
            IF i > n THEN 0
            ELSE IF text[i] = "\"" THEN i
            ELSE IF text[i] = "\\" THEN (IF i + 1 > n THEN 0 ELSE close[i + 2])
            ELSE close[i + 1]
        \* the first position at or after i that holds no white space
        skip[i \in 1..n + 1] == IF i <= n /\ IsWhite(text[i]) THEN skip[i + 1] ELSE i
        \* the tokens from position i on, position i holding no white space
        toks[i \in 1..n + 1] ==
            IF i > n THEN <<>>
            ELSE IF text[i] = "\""
                 THEN IF close[i + 1] = 0 THEN <<BadToken>>
                      ELSE <<StrToken(Unescape(SubSeq(text, i + 1, close[i + 1] - 1)))>>
                           \o toks[skip[close[i + 1] + 1]]
            ELSE <<SymToken(text[i])>> \o toks[skip[i + 1]]
    IN  toks[skip[1]]

\* the tokens of one Variable object, its two strings left open
VariableShape ==
    <<SymToken("{"), StrToken(KeyValue), SymToken(":"), [kind |-> "str"],
      SymToken(","), StrToken(KeyExpr), SymToken(":"), [kind |-> "str"], SymToken("}")>>

\* the tokens of a BuildFile with n Variables, in the field order of the struct
BuildFileShape(n) ==
    <<SymToken("{"), StrToken(KeyScriptName), SymToken(":"), [kind |-> "str"],
      SymToken(","), StrToken(KeyVariables), SymToken(":"), SymToken("[")>>
    \o Join([k \in 1..n |-> VariableShape], <<SymToken(",")>>)
    \o <<SymToken("]"), SymToken("}")>>

\* the BuildFile a sequence of tokens stands for: Ok(the BuildFile) or Err
BuildFileOf(toks) ==
    LET n == IF Len(toks) <= 10 THEN 0 ELSE (Len(toks) - 9) \div 10
        shape == BuildFileShape(n)
    IN  IF /\ Len(toks) = Len(shape)
           /\ \A i \in 1..Len(toks) :
                 /\ toks[i].kind = shape[i].kind
                 /\ "text" \in DOMAIN shape[i] => toks[i].text = shape[i].text
        THEN [status |-> "ok",
              build_file |->
                  [script_name |-> toks[4].text,
                   variables |-> [k \in 1..n |-> [value |-> toks[10 * k + 2].text,
                                                   expr |-> toks[10 * k + 6].text]]]]
        ELSE [status |-> "err"]

\* serde_json::from_reader::<BuildFile>, on the field order the writer uses.
\* The two sets bind the text and its tokens to their values.
from_reader(text) ==
    CHOOSE r \in {BuildFileOf(toks) : toks \in {Tokens(t) : t \in {text}}} : TRUE

\* build.json with text in it that is no BuildFile
Unreadable == [exists |-> TRUE]

\* build.json after text was written to it.  The model holds the session file
\* as the BuildFile that from_reader reads from its text.
Written(text) ==
    LET back == from_reader(text)
    IN  IF back.status = "ok"
        THEN SessionFile(back.build_file.script_name, back.build_file.variables)
        ELSE Unreadable

(***************************************************************************)
(* script.rs: BuildFile and ScriptBuilder.  A BuildFile in memory is       *)
(* [script_name, variables]; a Result is a record with a status of "ok",   *)
(* "err" (an Err returned) or "panic".                                     *)
(***************************************************************************)
\* BuildFile::new
BuildFile_new(script_name) == [script_name |-> script_name, variables |-> <<>>]

\* build_new without the assertion on the name
build_new_unchecked(script_name) ==
    [status |-> "ok", build_file |-> BuildFile_new(script_name)]

\* ScriptBuilder::build_new: panics on a name ending in ".sh"
build_new(script_name) ==
    IF EndsWith(script_name, DotSh) THEN [status |-> "panic"]
    ELSE [status |-> "ok", build_file |-> BuildFile_new(script_name)]

\* BuildFile::save_as_new: refuses to overwrite, else writes the session
save_as_new(build_file, file) ==
    IF file.exists THEN [status |-> "err", file |-> file]
    ELSE [status |-> "ok", file |-> Written(to_writer_pretty(build_file))]

\* start_build without the check that no session file exists, writing with
\* File::create as save_replace does
start_build_overwrite(build_file, file) ==
    [status |-> "ok", file |-> Written(to_writer_pretty(build_file))]

\* ScriptBuilder::start_build
start_build(build_file, file) ==
    IF file.exists THEN [status |-> "err", file |-> file]
    ELSE save_as_new(build_file, file)

\* BuildFile::save_replace: File::create truncates and the session is written
save_replace(build_file, file) ==
    [status |-> "ok", file |-> Written(to_writer_pretty(build_file))]

\* current_build that falls back to a fresh session when build.json is missing
current_build_or_new(file) ==
    IF ~file.exists THEN [status |-> "ok", build_file |-> BuildFile_new(NameA)]
    ELSE IF file = Unreadable THEN [status |-> "err"]
    ELSE [status |-> "ok",
          build_file |-> [script_name |-> file.script_name, variables |-> file.variables]]

\* BuildFile::current_build: fails when build.json is missing or is no BuildFile
current_build(file) ==
    IF ~file.exists THEN [status |-> "err"]
    ELSE IF file = Unreadable THEN [status |-> "err"]
    ELSE [status |-> "ok",
          build_file |-> [script_name |-> file.script_name, variables |-> file.variables]]

\* ScriptBuilder::load_current
load_current(file) ==
    LET b == current_build(file)
    IN  IF b.status # "ok" THEN b
        ELSE IF EndsWith(b.build_file.script_name, DotSh) THEN [status |-> "panic"]
        ELSE b

\* add_var that puts the new Variable in front of the list
add_var_front(build_file, var_name, var_expr) ==
    [build_file EXCEPT !.variables = <<[value |-> var_name, expr |-> var_expr]>> \o @]

\* ScriptBuilder::add_var
add_var(build_file, var_name, var_expr) ==
    [build_file EXCEPT !.variables = Append(@, [value |-> var_name, expr |-> var_expr])]

\* delete_build that reports success and leaves the session file in place
delete_build_keep(file) ==
    IF ~file.exists THEN [status |-> "panic", file |-> file]
    ELSE [status |-> "ok", file |-> file]

\* ScriptBuilder::delete_build
delete_build(file) ==
    IF ~file.exists THEN [status |-> "panic", file |-> file]
    ELSE [status |-> "ok", file |-> NoFile]

\* ScriptBuilder::parse_lines: fs::read_to_string fails on a missing history file
parse_lines(build_file, hist) ==
    IF ~hist.exists THEN [status |-> "err", lines |-> <<>>]
    ELSE parse_history(hist.content, build_file.variables)

\* fs::File::create(&path) on the scripts directory: a new file gets the mode
\* 0o666 less the umask, an existing one is truncated and keeps its mode
File_create(dir, name, umask) ==
    [dir EXCEPT ![name] =
        ScriptFile(<<>>, IF dir[name].exists THEN dir[name].mode
                         ELSE CreateMode - BitAnd(CreateMode, umask))]

\* write_all that ends the script with a newline
write_all_newline(dir, name, content) == [dir EXCEPT ![name].content = content \o <<"\n">>]

\* script.write_all(content.as_bytes())
write_all(dir, name, content) == [dir EXCEPT ![name].content = content]

\* lines 167-169 of build: perms is a copy of the file's permissions with the
\* mode set on the copy; nothing writes it back to the file
set_mode(dir, name) ==
    LET meta == dir[name]
        perms == ExecMode
    IN  dir

\* ScriptBuilder::build: the session file, the scripts directory and the
\* parser's result after the call
build(build_file, file, dir, hist, umask) ==
    LET name == build_file.script_name
        created == File_create(dir, name, umask)
        parse == parse_lines(build_file, hist)
    IN  IF parse.status # "ok"
        THEN [status |-> parse.status, file |-> file, dir |-> created, parse |-> parse]
        ELSE LET written == write_all(created, name, Join(parse.lines, <<"\n">>))
                 deleted == delete_build(file)
             IN  [status |-> deleted.status, file |-> deleted.file,
                  dir |-> set_mode(written, name), parse |-> parse]

(***************************************************************************)
(* The state machine: one action per invocation of the program             *)
(* (main.rs, handle_command), and one for the shell writing its history.   *)
(* ret is the outcome of the last invocation, parsed what parse_lines      *)
(* returned in it, active whether a start has succeeded with no finalize   *)
(* or discard succeeding since.                                            *)
(***************************************************************************)
\* the number of lines in the history file
HistLen == IF histfile.exists THEN Len(Lines(histfile.content)) ELSE 0

Init ==
    /\ histfile = NoFile
    /\ buildFile = NoFile
    /\ scripts = [n \in ScriptKeys |-> NoFile]
    /\ ret = Ret("init", "ok", <<>>)
    /\ parsed = NoParse
    /\ active = FALSE

\* the shell appends the command line it ran to its history file
ShellAppend(line) ==
    /\ HistLen < MaxHist
    /\ histfile' = HistFile((IF histfile.exists THEN histfile.content ELSE <<>>)
                            \o line \o <<"\n">>)
    /\ ret' = Ret("shell", "ok", <<>>)
    /\ parsed' = NoParse
    /\ UNCHANGED <<buildFile, scripts, active>>

\* `please build <name>`: build_new, then start_build
StartBuild(name) ==
    LET b == build_new(name)
        r == IF b.status # "ok" THEN [status |-> b.status, file |-> buildFile]
             ELSE start_build(b.build_file, buildFile)
    IN  /\ buildFile' = r.file
        /\ ret' = Ret("start", r.status, name)
        /\ active' = (active \/ r.status = "ok")
        /\ parsed' = NoParse
        /\ UNCHANGED <<histfile, scripts>>

\* `please ask`: load_current, add_var, save_replace
Record(var) ==
    LET b == load_current(buildFile)
        r == IF b.status # "ok" THEN [status |-> b.status, file |-> buildFile]
             ELSE save_replace(add_var(b.build_file, var.value, var.expr), buildFile)
    IN  /\ b.status = "ok" => Len(b.build_file.variables) < MaxRecorded
        /\ buildFile' = r.file
        /\ ret' = Ret("ask", r.status, NameOf(b))
        /\ parsed' = NoParse
        /\ UNCHANGED <<histfile, scripts, active>>

\* `please current`: load_current, display_script
Current ==
    LET b == load_current(buildFile)
        p == IF b.status # "ok" THEN NoParse ELSE parse_lines(b.build_file, histfile)
    IN  /\ ret' = Ret("current", IF b.status # "ok" THEN b.status ELSE p.status, NameOf(b))
        /\ parsed' = p
        /\ UNCHANGED <<histfile, buildFile, scripts, active>>

\* `please build`: load_current, build
Build ==
    \E umask \in Umasks :
        LET b == load_current(buildFile)
            r == IF b.status # "ok"
                 THEN [status |-> b.status, file |-> buildFile, dir |-> scripts,
                       parse |-> NoParse]
                 ELSE build(b.build_file, buildFile, scripts, histfile, umask)
        IN  /\ buildFile' = r.file
            /\ scripts' = r.dir
            /\ ret' = Ret("build", r.status, NameOf(b))
            /\ parsed' = r.parse
            /\ active' = (active /\ r.status # "ok")
            /\ UNCHANGED histfile

\* `please reset`: load_current, delete_build
Reset ==
    LET b == load_current(buildFile)
        r == IF b.status # "ok" THEN [status |-> b.status, file |-> buildFile]
             ELSE delete_build(buildFile)
    IN  /\ buildFile' = r.file
        /\ ret' = Ret("reset", r.status, NameOf(b))
        /\ active' = (active /\ r.status # "ok")
        /\ parsed' = NoParse
        /\ UNCHANGED <<histfile, scripts>>

Next ==
    \/ \E line \in ShellLines : ShellAppend(line)
    \/ \E name \in ScriptNames : StartBuild(name)
    \/ \E var \in VarPool : Record(var)
    \/ Current
    \/ Build
    \/ Reset

\* the build session over any sequence of invocations
Spec == Init /\ [][Next]_vars

(***************************************************************************)
(* The parser alone: a session whose Variables and whose history file are  *)
(* drawn from every combination of the lines and Variables below, and      *)
(* `please current` run on it.                                             *)
(***************************************************************************)
ParseLineSet ==
    {LineLs, LineAskName, LineAskAge, LineBuild, LineBuildHelp, LineBuildName,
     LineList, LineTwoCmds}

ParsePool == {Var1, VarList}

\* every sequence over S of length at most n
SeqsUpTo(S, n) == UNION {[1..k -> S] : k \in 0..n}

\* the history file the shell leaves after writing the lines ls, oldest first
HistoryOf(ls) == Concat([i \in 1..Len(ls) |-> ls[i] \o <<"\n">>])

InitParse ==
    /\ histfile \in {HistFile(HistoryOf(ls)) : ls \in SeqsUpTo(ParseLineSet, MaxLines)}
    /\ buildFile \in {SessionFile(NameA, vs) : vs \in SeqsUpTo(ParsePool, MaxVars)}
    /\ scripts = [n \in ScriptKeys |-> NoFile]
    /\ ret = Ret("init", "ok", <<>>)
    /\ parsed = NoParse
    /\ active = TRUE

NextParse == Current

\* the parser on short histories over a wider set of lines
WideLineSet == ParseLineSet \cup {LineBuildH, LineAskList, LineAskHelp, LineNoMeta}

InitWide ==
    /\ histfile \in {HistFile(HistoryOf(ls)) : ls \in SeqsUpTo(WideLineSet, MaxWide)}
    /\ buildFile \in {SessionFile(NameA, vs) : vs \in SeqsUpTo(ParsePool, MaxVars)}
    /\ scripts = [n \in ScriptKeys |-> NoFile]
    /\ ret = Ret("init", "ok", <<>>)
    /\ parsed = NoParse
    /\ active = TRUE

SpecWide == InitWide /\ [][NextParse]_vars

SpecParse == InitParse /\ [][NextParse]_vars

(***************************************************************************)
(* Properties of the parser, stated on the history lines and Variables the *)
(* session was given (SpecParse).  What a history line is meant to be is   *)
(* read off the line itself, not off the parser's predicates.              *)
(***************************************************************************)
\* the lines of the history file, oldest first
RawLines == IF histfile.exists THEN Lines(histfile.content) ELSE <<>>

\* the Variables of the session
Vars == IF buildFile.exists THEN buildFile.variables ELSE <<>>

\* `please current` ran the parser and the parser returned lines
ParsedOk == ret.op = "current" /\ parsed.status = "ok"

\* the lines the parser returned
Out == parsed.lines

\* the newest line of raw that is one of the lines in S, 0 when there is none
LastIndex(raw, S) ==
    LET hits == {i \in 1..Len(raw) : raw[i] \in S}
    IN  IF hits = {} THEN 0 ELSE CHOOSE i \in hits : \A j \in hits : j <= i

\* how many items of seq equal x
CountOf(seq, x) == Cardinality({i \in 1..Len(seq) : seq[i] = x})

\* the finalizing build command, alone or with a help flag
FinalizeLines == {LineBuild, LineBuildHelp}

\* the build command followed by a script name
StartLines == {LineBuildName}

\* the history lines newer than the newest `please build <name>` line
ScannedRaw == SubSeq(RawLines, LastIndex(RawLines, StartLines) + 1, Len(RawLines))

\* "ls", the command of LineLs
CmdLs == <<"l", "s">>

\* C1 as claimed: the scan stops at the newest `please build` that has no
\* argument or only a help flag, and goes on past `please build <name>`; so the
\* output holds one `ls` for every `ls` line newer than that `please build`.
C1_StopsAtFinalize ==
    ParsedOk =>
        CountOf(Out, CmdLs) =
            CountOf(SubSeq(RawLines, LastIndex(RawLines, FinalizeLines) + 1, Len(RawLines)),
                    LineLs)

\* C1 as amended: the scan stops (excluding that line) at the newest
\* `please build <name>` line; a `please build` with no argument or only a help
\* flag is not a stop marker, it is dropped from the output and the scan goes on
\* to the older lines behind it.
C1_StopsAtStart ==
    ParsedOk =>
        /\ CountOf(Out, CmdLs) = CountOf(ScannedRaw, LineLs)
        /\ \A i \in 1..Len(Out) : ~Contains(Out[i], BUILD_CMD)

\* a `please build <name>` line with an `ls` behind it, and in front of it an
\* `ls` followed by the finalizing `please build`
C1_Witness ==
    /\ ParsedOk
    /\ \E i, j \in 1..Len(RawLines) :
        /\ i < j
        /\ RawLines[i] \in StartLines
        /\ RawLines[j] \in FinalizeLines
        /\ \E k \in (i + 1)..(j - 1) : RawLines[k] = LineLs
    /\ CountOf(Out, CmdLs) = 1

\* the read statement for a prompt and a variable name
ReadLine(prompt, name) ==
    <<"r", "e", "a", "d", " ", "-", "p", " ", "\"">> \o prompt \o <<" ", "\"", " ">> \o name

\* the prompt of an ask line of the model
PromptOf(raw) == IF raw = LineAskName THEN <<"n", "?">> ELSE <<"a", "?">>

IsAskLine(raw) == raw \in {LineAskName, LineAskAge}

IsReadLine(line) == StartsWith(line, <<"r", "e", "a", "d", " ", "-", "p", " ", "\"">>)

\* the Variables whose name the read statement `line` reads
ReadVars(line) ==
    {v \in {Vars[k] : k \in 1..Len(Vars)} :
        \E raw \in {LineAskName, LineAskAge} : line = ReadLine(PromptOf(raw), v.value)}

\* C2 as claimed: in the output the read statement of an ask line comes right
\* after the expression line of its Variable.
C2_ExprThenRead ==
    ParsedOk =>
        \A i \in 1..Len(Out) :
            IsReadLine(Out[i]) =>
                /\ i > 1
                /\ \E v \in ReadVars(Out[i]) : Out[i - 1] = v.expr

\* C2 as amended: the two lines of an expanded ask line are adjacent in the
\* output with the read statement first, immediately followed by the
\* Variable's expression line.
C2_ReadThenExpr ==
    ParsedOk =>
        \A i \in 1..Len(Out) :
            IsReadLine(Out[i]) =>
                /\ i < Len(Out)
                /\ \E v \in ReadVars(Out[i]) : Out[i + 1] = v.expr

\* two ask lines were expanded, with different Variables
C2_Witness ==
    /\ ParsedOk
    /\ \E i, j \in 1..Len(Out) :
        /\ i < j
        /\ IsReadLine(Out[i])
        /\ IsReadLine(Out[j])
        /\ Out[i + 1] # Out[j + 1]

\* the ask lines among the scanned history lines, oldest first
ScannedAsks == SelectSeq(ScannedRaw, IsAskLine)

\* C3: with as many ask lines scanned as the session has Variables, the parser
\* succeeds and the k-th read statement of the output is built from the k-th
\* ask line's prompt and the k-th Variable's name.
C3_PairsInOrder ==
    (ret.op = "current" /\ Len(ScannedAsks) = Len(Vars)) =>
        /\ parsed.status = "ok"
        /\ SelectSeq(Out, IsReadLine) =
            [k \in 1..Len(Vars) |-> ReadLine(PromptOf(ScannedAsks[k]), Vars[k].value)]

\* two different ask lines and two different Variables
C3_Witness ==
    /\ ParsedOk
    /\ Len(ScannedAsks) = 2
    /\ Len(Vars) = 2
    /\ ScannedAsks[1] # ScannedAsks[2]
    /\ Vars[1] # Vars[2]

(***************************************************************************)
(* C4: more ask lines than Variables (Spec).                               *)
(***************************************************************************)
\* C4: when the scanned history holds more ask lines than the session has
\* Variables, `please current` and `please build` fail with the parser
\* returning no lines, and the session file is the same after the call.
C4_TooManyAsksFails ==
    [][(/\ ret'.op \in {"current", "build"}
        /\ buildFile.exists
        /\ histfile.exists
        /\ Len(ScannedAsks) > Len(Vars))
       => (/\ ret'.status # "ok"
           /\ parsed'.status = "panic"
           /\ parsed'.lines = <<>>
           /\ buildFile' = buildFile)]_vars

\* a finalize failed on an ask line with no Variable, the session still there
C4_Witness ==
    /\ ret.op = "build"
    /\ ret.status = "panic"
    /\ buildFile.exists
    /\ Len(ScannedAsks) > Len(Vars)

(***************************************************************************)
(* C5, C6: what reaches the output (SpecParse).                            *)
(***************************************************************************)
\* the administrative commands C5 names
AdminCommands ==
    { BUILD_CMD \o Sp \o Help,
      BUILD_CMD \o Sp \o DashH,
      Please \o Sp \o Ask \o Sp \o Help,
      Please \o Sp \o Ask \o Sp \o DashH,
      Please \o Sp \o <<"l", "i", "s", "t">>,
      Please \o Sp \o <<"c", "u", "r", "r", "e", "n", "t">> }

HasAdmin(text) == \E w \in AdminCommands : Contains(text, w)

\* C5 as claimed: no line of the output contains an administrative command,
\* whatever the history and the Variables are.
C5_NoAdminText == ParsedOk => \A i \in 1..Len(Out) : ~HasAdmin(Out[i])

\* C5 as amended: no output line that comes from the history (a pass-through
\* command, the prompt of a read statement) contains an administrative
\* command; a Variable's expr and value are emitted as recorded, so an output
\* line contains one only where the Variable it was built from does.
C5_AdminOnlyFromVariable ==
    ParsedOk =>
        \A i \in 1..Len(Out) :
            HasAdmin(Out[i]) =>
                \/ \E k \in 1..Len(Vars) : Out[i] = Vars[k].expr /\ HasAdmin(Vars[k].expr)
                \/ \E v \in ReadVars(Out[i]) : HasAdmin(v.value)

\* a `please list` line was scanned and dropped, and the output holds the
\* `please list` that a Variable recorded as its expression
C5_Witness ==
    /\ ParsedOk
    /\ CountOf(ScannedRaw, LineList) = 1
    /\ CountOf(Out, VarList.expr) = 1
    /\ CountOf(Out, CmdLs) = 1

\* the text after the first c of s, all of s when it holds none
RECURSIVE AfterFirst(_, _)
AfterFirst(s, c) ==
    IF s = <<>> THEN <<>>
    ELSE IF Head(s) = c THEN Tail(s)
    ELSE AfterFirst(Tail(s), c)

\* the history lines of the model that are neither dropped nor expanded
PassThroughLines == {LineLs, LineTwoCmds}

\* C6: a pass-through history line is emitted as the text after its first
\* semicolon, trimmed, later semicolons included.
C6_TextAfterFirstSemicolon ==
    ParsedOk =>
        \A raw \in PassThroughLines :
            CountOf(Out, Trim(AfterFirst(raw, ";"))) = CountOf(ScannedRaw, raw)

(***************************************************************************)
(* C7 - C10: the session file and the script files (Spec).                 *)
(***************************************************************************)
\* C7: a start fails when a session file exists and leaves that file as it
\* is; a start that succeeds found no session file and wrote one with the
\* given name and no Variables.
C7_StartRefusesActive ==
    [][ret'.op = "start" =>
        /\ buildFile.exists => (ret'.status # "ok" /\ buildFile' = buildFile)
        /\ ret'.status = "ok" =>
            (~buildFile.exists /\ buildFile' = SessionFile(ret'.name, <<>>))]_vars

\* a start was refused while a session of another name held a Variable
C7_Witness ==
    /\ ret.op = "start"
    /\ ret.status = "err"
    /\ buildFile.exists
    /\ buildFile.script_name # ret.name
    /\ buildFile.variables # <<>>

\* C8: the session file exists exactly when a start has succeeded and no
\* finalize or discard has succeeded since; while it does not exist, load
\* fails and a start succeeds.
C8_FileIffActive ==
    /\ buildFile.exists <=> active
    /\ (ret.op \in {"build", "reset"} /\ ret.status = "ok") => ~buildFile.exists
    /\ ~buildFile.exists =>
        /\ load_current(buildFile).status = "err"
        /\ start_build(BuildFile_new(NameA), buildFile).status = "ok"

\* a start succeeded after an earlier session was finalized into a script
C8_Witness ==
    /\ ret.op = "start"
    /\ ret.status = "ok"
    /\ buildFile.exists
    /\ \E n \in ScriptKeys : scripts[n].exists /\ scripts[n].content # <<>>

\* C9: after a successful finalize the script file of the session exists with
\* execute permission.
C9_ScriptExecutable ==
    (ret.op = "build" /\ ret.status = "ok") =>
        /\ scripts[ret.name].exists
        /\ HasExec(scripts[ret.name].mode)

\* C10: a finalize either completes (script written, session file deleted) or
\* fails and leaves the scripts directory and the session file as they were.
C10_FinalizeAllOrNothing ==
    [][ret'.op = "build" =>
        IF ret'.status = "ok"
        THEN scripts'[ret'.name].exists /\ ~buildFile'.exists
        ELSE scripts' = scripts /\ buildFile' = buildFile]_vars

(***************************************************************************)
(* Claims about the session file and the lifecycle, continued              *)
(***************************************************************************)
\* the session a successful step wrote, as the program held it in memory:
\* the empty session of a start, or the loaded session with the recorded
\* Variable added
SavedBy(var) ==
    IF ret'.op = "start" THEN BuildFile_new(ret'.name)
    ELSE add_var(current_build(buildFile).build_file, var.value, var.expr)

\* C11: a session that was persisted (by start's save_as_new or record's
\* save_replace) and is then loaded has the script name and the list of
\* Variables (length, order, each value and expr) that were saved
C11_SaveLoadRoundTrip ==
    [][(ret'.op \in {"start", "ask"} /\ ret'.status = "ok")
         => \E var \in VarPool :
               LET loaded == current_build(buildFile')
               IN  /\ loaded.status = "ok"
                   /\ loaded.build_file.script_name = SavedBy(var).script_name
                   /\ Len(loaded.build_file.variables) = Len(SavedBy(var).variables)
                   /\ \A i \in 1..Len(SavedBy(var).variables) :
                         /\ loaded.build_file.variables[i].value = SavedBy(var).variables[i].value
                         /\ loaded.build_file.variables[i].expr = SavedBy(var).variables[i].expr]_vars

\* a session was saved twice by record, the second time holding an expression
\* with double quotes in it
C11_Witness ==
    /\ ret.op = "ask" /\ ret.status = "ok" /\ buildFile.exists
    /\ buildFile.variables = <<Var1, Var2>>

\* C15: a successful record leaves the persisted session with the same script
\* name and the previous list followed by the one new Variable, and a failed
\* record leaves the session file as it was; a start leaves the empty list, so
\* n records after it leave n Variables in recording order
C15_RecordAppendsOne ==
    [][/\ (ret'.op = "ask" /\ ret'.status = "ok")
            => /\ buildFile.exists /\ buildFile'.exists
               /\ buildFile'.script_name = buildFile.script_name
               /\ \E var \in VarPool : buildFile'.variables = Append(buildFile.variables, var)
       /\ (ret'.op = "ask" /\ ret'.status # "ok") => buildFile' = buildFile
       /\ (ret'.op = "start" /\ ret'.status = "ok") => buildFile'.variables = <<>>]_vars

\* two records after a start: the two Variables in recording order
C15_Witness ==
    /\ ret.op = "ask" /\ ret.status = "ok" /\ buildFile.exists
    /\ buildFile.variables = <<Var2, Var1>>

\* C16: with no session file, display, finalize, record and discard each
\* fail, and neither a session file nor a script file appears
C16_NoSessionFails ==
    [][(~buildFile.exists /\ ret'.op \in {"current", "build", "ask", "reset"})
         => /\ ret'.status = "err"
            /\ ~buildFile'.exists
            /\ scripts' = scripts]_vars

\* finalize was run with no session file, after commands were typed
C16_Witness ==
    /\ ret.op = "build" /\ ret.status = "err"
    /\ ~buildFile.exists /\ histfile.exists
    /\ \A k \in ScriptKeys : ~scripts[k].exists

\* C17: display changes nothing (session file, scripts directory, history),
\* and a finalize run right after it ends as it did and, on success, writes
\* exactly the lines display computed
C17_DisplayIsFinalizePreview ==
    [][/\ ret'.op = "current"
            => /\ buildFile' = buildFile /\ scripts' = scripts /\ histfile' = histfile
       /\ (ret.op = "current" /\ ret'.op = "build")
            => /\ ret'.status = ret.status
               /\ ret.status = "ok"
                    => /\ scripts'[ret.name].exists
                       /\ scripts'[ret.name].content = Join(parsed.lines, <<"\n">>)]_vars

\* display succeeded on a session with a recorded Variable and showed commands
C17_Witness ==
    /\ ret.op = "current" /\ ret.status = "ok"
    /\ buildFile.exists /\ Len(buildFile.variables) > 0
    /\ Len(parsed.lines) > 2

\* C18: no session has a script name ending in ".sh": a start with such a
\* name fails and leaves no session, and load_current rejects such a session
C18_NoShSuffix ==
    /\ buildFile.exists => ~EndsWith(buildFile.script_name, DotSh)
    /\ (ret.op = "start" /\ EndsWith(ret.name, DotSh)) => ret.status = "panic"
    /\ \A name \in ScriptNames :
          EndsWith(name, DotSh) => load_current(SessionFile(name, <<>>)).status = "panic"

\* a start was tried with the name a.sh
C18_Witness ==
    /\ ret.op = "start" /\ ret.name = NameA \o DotSh /\ ret.status = "panic"
    /\ ~buildFile.exists

(***************************************************************************)
(* Claims about the parser, continued                                      *)
(***************************************************************************)
\* "please build", "--help" and "-h" as the claims write them
BuildPhrase == <<"p", "l", "e", "a", "s", "e", " ", "b", "u", "i", "l", "d">>
HelpFlags == {<<"-", "-", "h", "e", "l", "p">>, <<"-", "h">>}

\* the command text of a history line: what follows its first semicolon
CommandOf(raw) == AfterFirst(raw, ";")

\* a line is a start of build as C12 puts it: it starts with `please build`
\* and what remains after that, trimmed, is neither empty nor a help flag
StartExpected(line) ==
    /\ Len(line) >= Len(BuildPhrase)
    /\ SubSeq(line, 1, Len(BuildPhrase)) = BuildPhrase
    /\ LET rest == Trim(SubSeq(line, Len(BuildPhrase) + 1, Len(line)))
       IN  rest # <<>> /\ rest \notin HelpFlags

WideAskLines == {LineAskName, LineAskAge, LineAskList}

\* the prompt between the quotes of such an ask line
WidePromptOf(raw) ==
    IF raw = LineAskList THEN <<"p", "l", "e", "a", "s", "e", " ", "l", "i", "s", "t">> ELSE PromptOf(raw)

IsWideAskLine(raw) == raw \in WideAskLines

\* C13: a history of the one line `<metadata>;please ask "P"` with one
\* Variable {V, E} gives exactly 4 lines, the third being `read -p "P " V`
C13_OneAskFourLines ==
    (ret.op = "current" /\ Len(RawLines) = 1 /\ IsWideAskLine(RawLines[1]) /\ Len(Vars) = 1)
        => /\ parsed.status = "ok"
           /\ Len(Out) = 4
           /\ Out[3] = ReadLine(WidePromptOf(RawLines[1]), Vars[1].value)

\* C19: every scanned ask line that is no help variant becomes a read
\* statement, whatever its prompt, so a successful parse returns as many read
\* statements as it scanned such ask lines
C19_EveryAskBecomesRead ==
    ParsedOk =>
        Len(SelectSeq(Out, IsReadLine)) = Len(SelectSeq(ScannedRaw, IsWideAskLine))

\* "#!/bin/sh" and "set -e" as C14 writes them
ShebangText == <<"#", "!", "/", "b", "i", "n", "/", "s", "h">>
SetEText == <<"s", "e", "t", " ", "-", "e">>

\* how many lines of raw are in S
CountIn(raw, S) == Cardinality({i \in 1..Len(raw) : raw[i] \in S})

\* C14: a non-empty history with no start-of-build line, in a session with a
\* Variable for each of its ask lines, is scanned back to its oldest line: the
\* result holds the shebang, then `set -e`, then one line for every
\* pass-through line and two for every ask line of the whole history; and the
\* shebang and `set -e` are the first two lines of every successful result
C14_HeaderThenWholeHistory ==
    /\ ParsedOk =>
          /\ Len(Out) >= 2
          /\ TrimEnd(Out[1]) = ShebangText
          /\ TrimEnd(Out[2]) = SetEText
    /\ (/\ ret.op = "current"
        /\ RawLines # <<>>
        /\ CountIn(RawLines, StartLines) = 0
        /\ CountIn(RawLines, {LineAskName, LineAskAge}) <= Len(Vars))
          => /\ parsed.status = "ok"
             /\ Len(Out) = 2 + CountIn(RawLines, PassThroughLines)
                             + 2 * CountIn(RawLines, {LineAskName, LineAskAge})
             /\ CountOf(Out, CmdLs) = CountOf(RawLines, LineLs)
             /\ RawLines[1] = LineLs => Out[3] = CmdLs

\* three lines, none a start of build, the oldest an `ls` and one an ask
C14_Witness ==
    /\ ParsedOk
    /\ Len(RawLines) = 3
    /\ CountIn(RawLines, StartLines) = 0
    /\ RawLines[1] = LineLs
    /\ CountIn(RawLines, {LineAskName, LineAskAge}) = 1
    /\ Len(Out) > 4

\* C20: the parser's result is the result it gives for the lines newer than
\* the newest `please build <name>` line alone, with the same Variables: that
\* line and the older ones add no line and take no Variable
C20_OnlyNewerThanStart ==
    ret.op = "current" => parsed = parse_history(HistoryOf(ScannedRaw), Vars)

\* an ask line older than the start line, one newer, and a single Variable
C20_Witness ==
    /\ ParsedOk
    /\ Len(RawLines) = 3
    /\ IsAskLine(RawLines[1])
    /\ RawLines[2] \in StartLines
    /\ IsAskLine(RawLines[3])
    /\ Len(Vars) = 1
    /\ Len(Out) = 4

\* the history line an output line comes from: "ls" and "two" for the two
\* pass-through lines, "name" and "age" for the read statement of an ask line,
\* "expr" for any other line
OriginOf(line) ==
    IF line = CmdLs THEN "ls"
    ELSE IF Contains(line, <<"c", "d">>) THEN "two"
    ELSE IF \E v \in ParsePool : line = ReadLine(PromptOf(LineAskName), v.value) THEN "name"
    ELSE IF \E v \in ParsePool : line = ReadLine(PromptOf(LineAskAge), v.value) THEN "age"
    ELSE "expr"

\* what a history line puts into the output, in output order
OriginsOf(raw) ==
    IF raw = LineLs THEN <<"ls">>
    ELSE IF raw = LineTwoCmds THEN <<"two">>
    ELSE IF raw = LineAskName THEN <<"name", "expr">>
    ELSE IF raw = LineAskAge THEN <<"age", "expr">>
    ELSE <<>>

\* C21: after the two header lines the output follows the scanned history
\* lines oldest first: each pass-through line gives its command and each ask
\* line its two lines, at the place of that history line among the others
C21_ChronologicalOrder ==
    ParsedOk =>
        [i \in 1..Len(Out) - 2 |-> OriginOf(Out[i + 2])]
            = Concat([k \in 1..Len(ScannedRaw) |-> OriginsOf(ScannedRaw[k])])

\* three scanned lines: an `ls`, then an ask, then the two-command line
C21_Witness ==
    /\ ParsedOk
    /\ ScannedRaw = <<LineLs, LineAskName, LineTwoCmds>>
    /\ Len(Out) = 6

\* the lines of the wide line set the parser passes through, expands, drops
WidePassThrough == {LineLs, LineTwoCmds, LineNoMeta}
WideExpanded == {LineAskName, LineAskAge}

\* C22: a successful parse returns 2 + p + 2a lines, p the scanned lines
\* passed through and a the scanned lines expanded as ask lines; a line with no
\* command text counts in p and gives one empty output line
C22_LineCount ==
    ParsedOk =>
        /\ Len(Out) = 2 + CountIn(ScannedRaw, WidePassThrough)
                        + 2 * CountIn(ScannedRaw, WideExpanded)
        /\ CountOf(Out, <<>>) = CountOf(ScannedRaw, LineNoMeta)

\* an ask line and a line with no command text were scanned
C22_Witness ==
    /\ ParsedOk
    /\ Len(ScannedRaw) = 2
    /\ CountIn(ScannedRaw, WideExpanded) = 1
    /\ CountOf(ScannedRaw, LineNoMeta) = 1
    /\ Len(Out) = 5

\* C23: with more Variables than scanned ask lines the parser succeeds, the
\* k-th ask line (oldest first) is paired with the k-th of the newest
\* Variables, and an older Variable that is none of those is in no output line
C23_SpareVariablesUnused ==
    (ret.op = "current" /\ Len(ScannedAsks) < Len(Vars)) =>
        LET spare == Len(Vars) - Len(ScannedAsks)
        IN  /\ parsed.status = "ok"
            /\ SelectSeq(Out, IsReadLine) =
                  [k \in 1..Len(ScannedAsks) |->
                      ReadLine(PromptOf(ScannedAsks[k]), Vars[spare + k].value)]
            /\ Len(Out) = 2 + CountIn(ScannedRaw, PassThroughLines) + 2 * Len(ScannedAsks)
            /\ \A j \in 1..spare :
                  (\A k \in spare + 1..Len(Vars) : Vars[k] # Vars[j])
                      => \A i \in 1..Len(Out) :
                            /\ ~Contains(Out[i], Vars[j].value)
                            /\ Out[i] # Vars[j].expr

\* two different Variables and one scanned ask line
C23_Witness ==
    /\ ParsedOk
    /\ Len(Vars) = 2
    /\ Vars[1] # Vars[2]
    /\ Len(ScannedAsks) = 1

====
